---- MODULE Spec2Model ----
(***************************************************************************)
(* A model of src/main.py, the Substack export to Markdown converter.      *)
(*                                                                         *)
(* Strings are sequences of one-character strings.  An HTML text is a      *)
(* sequence of lexical tokens (a character of text, an opening tag, a      *)
(* closing tag, a void tag).  A file name is the string of its characters. *)
(*                                                                         *)
(* Four specifications share the module:                                   *)
(*   Spec       a run of main(): SubstackConverter(...) then convert_all() *)
(*   SpecLoad   the construction of the converter, on every posts.csv      *)
(*   SpecName   the derivation of the output file name in convert_file     *)
(*   SpecClean  _clean_html_content applied once and again to its output   *)
(***************************************************************************)
EXTENDS Naturals, Sequences, FiniteSets, TLC

VARIABLES
    \* ---- the export directory, as main() finds it (the environment)
    csvExists,        \* posts.csv exists
    csvRows,          \* the rows csv.DictReader yields from posts.csv
    postsDirExists,   \* <export>/posts exists
    postsDir,         \* the names of the files in <export>/posts
    \* ---- the output directory (the disk)
    outputDir,        \* output file name -> what the file holds
    \* ---- SubstackConverter and convert_all
    posts_metadata,   \* self.posts_metadata
    html_files,       \* convert_all's list of globbed files
    idx,              \* position of convert_all's for loop (1-based)
    successful,       \* convert_all's counter
    pc,               \* where main() stands
    console,          \* what was printed so far
    \* ---- the file name derivation on its own
    nm_title, nm_post_id, nm_output_filename,
    \* ---- the sanitizer on its own
    html_content,     \* the raw HTML text given to the first pass
    cleaned           \* cleaned[i]: the text after i passes

runVars   == <<csvExists, csvRows, postsDirExists, postsDir, outputDir,
               posts_metadata, html_files, idx, successful, pc, console>>
nameVars  == <<nm_title, nm_post_id, nm_output_filename>>
cleanVars == <<html_content, cleaned>>
vars      == <<runVars, nameVars, cleanVars>>

(***************************************************************************)
(* Bounds of the model.                                                    *)
(***************************************************************************)
MaxFiles  == 3    \* files in the posts directory (Spec)
MaxRows   == 3    \* rows in posts.csv (SpecLoad)
MaxTitle  == 3    \* characters of a title in SpecName
MaxBlocks == 3    \* top-level blocks of an HTML text in SpecClean
MaxPasses == 3    \* passes of the sanitizer over its own output in SpecClean

(***************************************************************************)
(* Characters and the classes of Python's re module (Unicode mode).        *)
(***************************************************************************)
Letters    == {"a", "b", "c", "d", "e", "h", "i", "l", "m", "n", "o", "r", "t",
               "A", "H", "P", "U", "W"}
Digits     == {"1", "2"}
Whitespace == {" ", "\n", "\t"}       \* \s
WordChars  == Letters \cup Digits \cup {"_"}   \* \w: alphanumerics and "_"
Hyphen     == "-"
\* the other characters in use are punctuation: "," "!" "." and "EMDASH" (U+2014)

IsSpace(c) == c \in Whitespace

\* the sequence s without the elements that fail Keep
RECURSIVE SelectChars(_, _)
SelectChars(s, keep) ==
    IF s = <<>> THEN <<>>
    ELSE (IF Head(s) \in keep THEN <<Head(s)>> ELSE <<>>)
            \o SelectChars(Tail(s), keep)

\* str.lstrip() / str.rstrip() / str.strip() with no argument
RECURSIVE LStrip(_)
LStrip(s) == IF s # <<>> /\ IsSpace(Head(s)) THEN LStrip(Tail(s)) ELSE s

RECURSIVE RStrip(_)
RStrip(s) ==
    IF s # <<>> /\ IsSpace(s[Len(s)]) THEN RStrip(SubSeq(s, 1, Len(s) - 1)) ELSE s

Strip(s) == LStrip(RStrip(s))

\* s.split('.')[0]: the text before the first "."
RECURSIVE BeforeFirstDot(_)
BeforeFirstDot(s) ==
    IF s = <<>> \/ Head(s) = "." THEN <<>>
    ELSE <<Head(s)>> \o BeforeFirstDot(Tail(s))

\* the index of the last "." of s, 0 when there is none
RECURSIVE LastDot(_)
LastDot(s) ==
    IF s = <<>> THEN 0
    ELSE IF s[Len(s)] = "." THEN Len(s)
    ELSE LastDot(SubSeq(s, 1, Len(s) - 1))

\* pathlib's PurePath.stem: the name without its last suffix
Stem(name) ==
    LET i == LastDot(name)
    IN  IF i > 1 /\ i < Len(name) THEN SubSeq(name, 1, i - 1) ELSE name

\* pathlib's PurePath.suffix
Suffix(name) ==
    LET i == LastDot(name)
    IN  IF i > 1 /\ i < Len(name) THEN SubSeq(name, i, Len(name)) ELSE <<>>

(***************************************************************************)
(* convert_file, lines 174-181: the output file name.                      *)
(***************************************************************************)
\* re.sub(r'[^\w\s-]', '', title)
RemoveUnsafe_NoUnderscore(title) ==
    SelectChars(title, Letters \cup Digits \cup Whitespace \cup {Hyphen})

RemoveUnsafe(title) ==
    SelectChars(title, WordChars \cup Whitespace \cup {Hyphen})

\* re.sub(r'[-\s]+', '-', s): every maximal run of "-" and whitespace becomes "-"
RECURSIVE CollapseToHyphen(_)
CollapseToHyphen(s) ==
    IF s = <<>> THEN <<>>
    ELSE IF Head(s) \in Whitespace \cup {Hyphen}
         THEN IF Len(s) > 1 /\ s[2] \in Whitespace \cup {Hyphen}
              THEN CollapseToHyphen(Tail(s))
              ELSE <<Hyphen>> \o CollapseToHyphen(Tail(s))
         ELSE <<Head(s)>> \o CollapseToHyphen(Tail(s))

SafeTitle(title) == CollapseToHyphen(Strip(RemoveUnsafe(title)))

\* the name without the post_id
OutputFilename_TitleOnly(post_id, title) ==
    SafeTitle(title) \o <<".", "m", "d">>

\* f"{post_id}_{safe_title}.md"
OutputFilename(post_id, title) ==
    post_id \o <<"_">> \o SafeTitle(title) \o <<".", "m", "d">>

\* _extract_post_id
ExtractPostId(filename) == BeforeFirstDot(filename)

(***************************************************************************)
(* HTML texts.  A token is one lexical unit of the text: a character of    *)
(* text, an opening tag with its class list, a closing tag, or a void tag  *)
(* (br, img).  x is "/" when a void tag is written self-closed.            *)
(***************************************************************************)
Absent == "<absent>"     \* an attribute the tag does not carry

Text(ch)          == [k |-> "text",  n |-> ch,  c |-> {}, src |-> Absent, alt |-> Absent, x |-> ""]
Open(tag, cls)    == [k |-> "open",  n |-> tag, c |-> cls, src |-> Absent, alt |-> Absent, x |-> ""]
Close(tag)        == [k |-> "close", n |-> tag, c |-> {}, src |-> Absent, alt |-> Absent, x |-> ""]
Br(x)             == [k |-> "void",  n |-> "br", c |-> {}, src |-> Absent, alt |-> Absent, x |-> x]
Img(src, alt, x)  == [k |-> "void",  n |-> "img", c |-> {}, src |-> src, alt |-> alt, x |-> x]

IsText(t)  == t.k = "text"
IsWs(t)    == t.k = "text" /\ t.n \in Whitespace
IsBr(t)    == t.k = "void" /\ t.n = "br"
IsImg(t)   == t.k = "void" /\ t.n = "img"

\* the class lists of find_all(['div'], class_=[...]), lines 81, 85, 89 and 93
SubscriptionClasses == {"subscription-widget", "subscription-widget-wrap-editor"}
PollClasses         == {"poll-embed"}
ShareClasses        == {"captioned-button-wrap"}
ImageClasses        == {"captioned-image-container"}

\* find_all(['div'], class_=names) matches a div whose class list holds one of names
MatchesDiv(t, names) == t.k = "open" /\ t.n = "div" /\ t.c \cap names # {}

IsNoise(t)   == MatchesDiv(t, SubscriptionClasses \cup PollClasses \cup ShareClasses)
IsWrapper(t) == MatchesDiv(t, ImageClasses)

\* the index of the closing tag of the element opened at toks[i]; past the end
\* of the text when the element is never closed (the parser closes it there)
RECURSIVE CloseFrom(_, _, _)
CloseFrom(toks, j, depth) ==
    IF j > Len(toks) THEN Len(toks) + 1
    ELSE IF toks[j].k = "open" THEN CloseFrom(toks, j + 1, depth + 1)
    ELSE IF toks[j].k = "close"
         THEN IF depth = 0 THEN j ELSE CloseFrom(toks, j + 1, depth - 1)
    ELSE CloseFrom(toks, j + 1, depth)

MatchClose(toks, i) == CloseFrom(toks, i + 1, 0)

\* the tokens strictly inside the element opened at toks[i]
Inside(toks, i) == SubSeq(toks, i + 1, MatchClose(toks, i) - 1)

\* the same removal stopping after the first match (find() for find_all())
RemoveNoise_FirstOnly(toks) ==
    LET first == CHOOSE i \in 1..(Len(toks) + 1) :
                    /\ i <= Len(toks) => IsNoise(toks[i])
                    /\ \A j \in 1..(i - 1) : ~IsNoise(toks[j])
    IN  IF first > Len(toks) THEN toks
        ELSE SubSeq(toks, 1, first - 1)
             \o SubSeq(toks, MatchClose(toks, first) + 1, Len(toks))

\* lines 81-90: decompose() every div of a noise class, with its subtree
RECURSIVE RemoveNoise(_)
RemoveNoise(toks) ==
    IF toks = <<>> THEN <<>>
    ELSE IF IsNoise(Head(toks))
         THEN RemoveNoise(SubSeq(toks, MatchClose(toks, 1) + 1, Len(toks)))
         ELSE <<Head(toks)>> \o RemoveNoise(Tail(toks))

\* tag.find('img'), tag.find('figcaption'): the first such descendant (0: none)
RECURSIVE FirstIndex(_, _, _)
FirstIndex(toks, j, kind) ==
    IF j > Len(toks) THEN 0
    ELSE IF (kind = "img" /\ IsImg(toks[j]))
            \/ (kind = "figcaption" /\ toks[j].k = "open" /\ toks[j].n = "figcaption")
         THEN j
         ELSE FirstIndex(toks, j + 1, kind)

\* tag.get_text(): the characters of the text nodes below tag
RECURSIVE GetText(_)
GetText(toks) ==
    IF toks = <<>> THEN <<>>
    ELSE (IF IsText(Head(toks)) THEN <<Head(toks).n>> ELSE <<>>) \o GetText(Tail(toks))

RECURSIVE AsText(_)
AsText(chars) ==
    IF chars = <<>> THEN <<>> ELSE <<Text(Head(chars))>> \o AsText(Tail(chars))

\* img.get(name, "")
GetAttr(v) == IF v = Absent THEN "" ELSE v

\* lines 98-104: the fragment BeautifulSoup(new_content, 'html.parser') holds
NewContent(inner) ==
    LET img  == inner[FirstIndex(inner, 1, "img")]
        fc   == FirstIndex(inner, 1, "figcaption")
        caption_text == IF fc = 0 THEN <<>> ELSE Strip(GetText(Inside(inner, fc)))
    IN  <<Img(GetAttr(img.src), GetAttr(img.alt), "")>>
        \o (IF caption_text # <<>>
            THEN <<Br(""), Open("em", {})>> \o AsText(caption_text) \o <<Close("em")>>
            ELSE <<>>)

\* the same loop replacing a wrapper that holds no image by an empty fragment
RECURSIVE ReplaceContainers_EmptyWhenNoImage(_)
ReplaceContainers_EmptyWhenNoImage(toks) ==
    IF toks = <<>> THEN <<>>
    ELSE IF IsWrapper(Head(toks))
         THEN LET inner == Inside(toks, 1)
                  rest  == SubSeq(toks, MatchClose(toks, 1) + 1, Len(toks))
              IN  (IF FirstIndex(inner, 1, "img") # 0 THEN NewContent(inner) ELSE <<>>)
                  \o ReplaceContainers_EmptyWhenNoImage(rest)
         ELSE <<Head(toks)>> \o ReplaceContainers_EmptyWhenNoImage(Tail(toks))

\* lines 93-106: every image container that holds an image ("if img:") is
\* replaced by the simplified fragment; one that holds none is left as it is
RECURSIVE ReplaceContainers(_)
ReplaceContainers(toks) ==
    IF toks = <<>> THEN <<>>
    ELSE IF IsWrapper(Head(toks)) /\ FirstIndex(Inside(toks, 1), 1, "img") # 0
         THEN NewContent(Inside(toks, 1))
              \o ReplaceContainers(SubSeq(toks, MatchClose(toks, 1) + 1, Len(toks)))
         ELSE <<Head(toks)>> \o ReplaceContainers(Tail(toks))

\* line 109, str(soup): a void tag is written self-closed
RECURSIVE Serialize(_)
Serialize(toks) ==
    IF toks = <<>> THEN <<>>
    ELSE <<IF Head(toks).k = "void" THEN [Head(toks) EXCEPT !.x = "/"] ELSE Head(toks)>>
         \o Serialize(Tail(toks))

\* line 110, re.sub(r'\s+', ' ', cleaned)
RECURSIVE CollapseWhitespace(_)
CollapseWhitespace(toks) ==
    IF toks = <<>> THEN <<>>
    ELSE IF IsWs(Head(toks))
         THEN IF Len(toks) > 1 /\ IsWs(toks[2])
              THEN CollapseWhitespace(Tail(toks))
              ELSE <<Text(" ")>> \o CollapseWhitespace(Tail(toks))
         ELSE <<Head(toks)>> \o CollapseWhitespace(Tail(toks))

\* the number of whitespace characters at the start of toks
RECURSIVE LeadingWs(_)
LeadingWs(toks) ==
    IF toks # <<>> /\ IsWs(Head(toks)) THEN 1 + LeadingWs(Tail(toks)) ELSE 0

ParagraphBreak == <<Text("\n"), Text("\n")>>

\* line 111, re.sub(r'<br\s*/?>\s*<br\s*/?>', '\n\n', cleaned): leftmost pairs first
RECURSIVE CollapseBreakPairs(_)
CollapseBreakPairs(toks) ==
    IF toks = <<>> THEN <<>>
    ELSE LET w == LeadingWs(Tail(toks))
         IN  IF IsBr(Head(toks)) /\ Len(toks) >= w + 2 /\ IsBr(toks[w + 2])
             THEN ParagraphBreak \o CollapseBreakPairs(SubSeq(toks, w + 3, Len(toks)))
             ELSE <<Head(toks)>> \o CollapseBreakPairs(Tail(toks))

\* _clean_html_content
CleanHtmlContent(html) ==
    CollapseBreakPairs(CollapseWhitespace(Serialize(ReplaceContainers(RemoveNoise(html)))))

(***************************************************************************)
(* SpecClean: the sanitizer applied to an HTML text, then to its own       *)
(* output.  The text is up to MaxBlocks blocks, each one of Blocks.        *)
(***************************************************************************)
Div(cls, inner) == <<Open("div", cls)>> \o inner \o <<Close("div")>>

Figcaption(chars) == <<Open("figcaption", {})>> \o AsText(chars) \o <<Close("figcaption")>>

Blocks ==
    { <<Text("a")>>,
      <<Text(" ")>>,
      <<Text("\n")>>,
      <<Br("")>>,
      <<Br("/")>>,
      <<Img("s", Absent, "")>>,
      Div({}, <<Text("a")>>),
      Div({"poll-embed"}, <<Text("a")>>),
      Div({"button", "captioned-button-wrap"}, <<Br("")>>),
      Div({"subscription-widget-wrap-editor"},
          Div({"subscription-widget"}, <<Text("a")>>)),
      Div({"subscription-widget"}, Div({"captioned-image-container"}, <<Text("a")>>)),
      Div({"captioned-image-container"}, <<Text("a")>>),
      Div({"captioned-image-container"}, Figcaption(<<"c">>)),
      Div({"captioned-image-container"}, <<Img("s", "t", "")>>),
      Div({"captioned-image-container"},
          <<Img("s", Absent, "/")>> \o Figcaption(<<" ", "c", " ">>)),
      Div({"captioned-image-container"},
          <<Img(Absent, "t", "")>> \o Figcaption(<<" ">>)),
      Div({"captioned-image-container"},
          Div({"poll-embed"}, <<Img("s", "t", "")>>)) }

RECURSIVE Concat(_)
Concat(seqs) == IF seqs = <<>> THEN <<>> ELSE Head(seqs) \o Concat(Tail(seqs))

HtmlTexts ==
    { Concat(bs) : bs \in UNION { [1..n -> Blocks] : n \in 0..MaxBlocks } }

InitRunIdle ==
    /\ csvExists = FALSE /\ csvRows = <<>>
    /\ postsDirExists = FALSE /\ postsDir = {}
    /\ outputDir = <<>>
    /\ posts_metadata = <<>>
    /\ html_files = <<>> /\ idx = 0 /\ successful = 0
    /\ pc = "idle" /\ console = <<>>

InitNameIdle ==
    /\ nm_title = <<>> /\ nm_post_id = <<>> /\ nm_output_filename = <<>>

InitCleanIdle ==
    /\ html_content = <<>> /\ cleaned = <<>>

InitClean ==
    /\ InitRunIdle /\ InitNameIdle
    /\ html_content \in HtmlTexts
    /\ cleaned = <<>>

\* one call of _clean_html_content: on the raw text, then on its own output
CleanPass ==
    /\ Len(cleaned) < MaxPasses
    /\ cleaned' = Append(cleaned,
                    CleanHtmlContent(IF cleaned = <<>> THEN html_content
                                     ELSE cleaned[Len(cleaned)]))
    /\ UNCHANGED <<html_content, runVars, nameVars>>

NextClean == CleanPass

SpecClean == InitClean /\ [][NextClean]_vars

(***************************************************************************)
(* Claims about the sanitizer (SpecClean).                                 *)
(***************************************************************************)
\* toks[j] opens an element that holds toks[i]
Encloses(toks, j, i) == j < i /\ toks[j].k = "open" /\ MatchClose(toks, j) > i

\* toks[i] lies in the subtree of a noise element (or opens one)
InNoise(toks, i) ==
    IsNoise(toks[i]) \/ \E j \in 1..Len(toks) : Encloses(toks, j, i) /\ IsNoise(toks[j])

\* the wrapper opened at toks[i] has a descendant image once the noise is gone
HoldsImage(toks, i) ==
    \E m \in 1..Len(toks) : Encloses(toks, i, m) /\ IsImg(toks[m]) /\ ~InNoise(toks, m)

\* the image-with-caption wrappers of the text that reach the image step with
\* no descendant image, outside every wrapper that holds one
ImagelessWrappers(toks) ==
    { i \in 1..Len(toks) :
        /\ IsWrapper(toks[i]) /\ ~InNoise(toks, i) /\ ~HoldsImage(toks, i)
        /\ ~\E j \in 1..Len(toks) :
              Encloses(toks, j, i) /\ IsWrapper(toks[j]) /\ HoldsImage(toks, j) }

WrapperCount(toks) == Cardinality({ i \in 1..Len(toks) : IsWrapper(toks[i]) })
NoiseCount(toks)   == Cardinality({ i \in 1..Len(toks) : IsNoise(toks[i]) })
HasNewline(toks)   == \E i \in 1..Len(toks) : toks[i] = Text("\n")
HasParagraphBreak(toks) ==
    \E i \in 1..(Len(toks) - 1) : toks[i] = Text("\n") /\ toks[i + 1] = Text("\n")

\* the tokens of a text that are not whitespace
RECURSIVE NonWhitespace(_)
NonWhitespace(toks) ==
    IF toks = <<>> THEN <<>>
    ELSE (IF IsWs(Head(toks)) THEN <<>> ELSE <<Head(toks)>>) \o NonWhitespace(Tail(toks))

\* C9 as stated: a second pass over the sanitizer's output changes nothing, the
\* paragraph-break markers of the first pass included.
C9_Idempotent ==
    Len(cleaned) >= 2 => cleaned[2] = cleaned[1]

\* C9 amended: after one pass no noise element is left; a second pass changes
\* nothing when the first output holds no paragraph-break marker, and otherwise
\* changes only whitespace: every marker is collapsed, with the whitespace next
\* to it, into a single space.  From the second pass on the text is stable.
C9_SecondPassCollapsesBreaks ==
    /\ Len(cleaned) >= 1 =>
          /\ NoiseCount(cleaned[1]) = 0
          /\ HasNewline(cleaned[1]) <=> HasParagraphBreak(cleaned[1])
    /\ Len(cleaned) >= 2 =>
          /\ ~HasParagraphBreak(cleaned[1]) => cleaned[2] = cleaned[1]
          /\ HasParagraphBreak(cleaned[1]) =>
                /\ cleaned[2] # cleaned[1]
                /\ ~HasNewline(cleaned[2])
                /\ NonWhitespace(cleaned[2]) = NonWhitespace(cleaned[1])
    /\ Len(cleaned) >= 3 => cleaned[3] = cleaned[2]

\* two line breaks with a noise element between them: the first pass writes a
\* paragraph-break marker and the second pass has run over it
C9_Witness ==
    /\ Len(cleaned) >= 2
    /\ HasParagraphBreak(cleaned[1])
    /\ NoiseCount(html_content) > 0
    /\ cleaned[2] # cleaned[1]

\* C10 as stated: no image-with-caption wrapper is left in the sanitizer's output.
C10_NoWrapperLeft ==
    Len(cleaned) >= 1 => WrapperCount(cleaned[1]) = 0

\* C10 amended: a wrapper with no descendant image is not replaced: the output
\* holds exactly the wrappers that reached the image step without an image
\* (those not removed with a noise element), each with its content.
C10_ImagelessWrapperKept ==
    Len(cleaned) >= 1 =>
        /\ WrapperCount(cleaned[1]) = Cardinality(ImagelessWrappers(html_content))
        /\ \A i \in ImagelessWrappers(html_content) :
              \E j \in 1..Len(cleaned[1]) :
                 /\ cleaned[1][j] = html_content[i]
                 /\ GetText(Inside(cleaned[1], j))
                      = GetText(CollapseWhitespace(RemoveNoise(Inside(html_content, i))))

C10_Witness ==
    /\ Len(cleaned) >= 1
    /\ ImagelessWrappers(html_content) # {}
    /\ WrapperCount(html_content) > Cardinality(ImagelessWrappers(html_content))
    /\ WrapperCount(cleaned[1]) > 0

(***************************************************************************)
(* SpecName: the output file name of one post, for every title of up to    *)
(* MaxTitle characters and for the title of the specification's example.   *)
(***************************************************************************)
TitleChars == {"a", "1", "_", " ", "\t", "-", ","}

ExampleTitle ==
    <<"H", "e", "l", "l", "o", ",", " ", "W", "o", "r", "l", "d", "!", " ",
      "EMDASH", " ", "P", "a", "r", "t", " ", "2">>

ExampleSafeTitle ==
    <<"H", "e", "l", "l", "o", "-", "W", "o", "r", "l", "d", "-",
      "P", "a", "r", "t", "-", "2">>

Titles ==
    UNION { [1..n -> TitleChars] : n \in 0..MaxTitle } \cup {ExampleTitle}

PostIds == { <<"1">>, <<"1", "2">> }

InitName ==
    /\ InitRunIdle /\ InitCleanIdle
    /\ nm_title \in Titles
    /\ nm_post_id \in PostIds
    /\ nm_output_filename = <<>>

\* lines 177-180 of convert_file, for the title in hand
DeriveFilename ==
    /\ nm_output_filename = <<>>
    /\ nm_output_filename' = OutputFilename(nm_post_id, nm_title)
    /\ UNCHANGED <<nm_title, nm_post_id, runVars, cleanVars>>

NextName == DeriveFilename

SpecName == InitName /\ [][NextName]_vars

\* the number of characters of s that are in W
CountIn(s, W) == Cardinality({ i \in 1..Len(s) : s[i] \in W })

\* the index in s of its k-th character of W; 0 for k = 0, Len(s) + 1 past the last
PosOf(s, W, k) ==
    IF k = 0 THEN 0
    ELSE IF k > CountIn(s, W) THEN Len(s) + 1
    ELSE CHOOSE i \in 1..Len(s) :
            s[i] \in W /\ Cardinality({ j \in 1..i : s[j] \in W }) = k

\* the characters of s between its k-th and its (k+1)-th character of W
Gap(s, W, k) == { s[i] : i \in (PosOf(s, W, k) + 1)..(PosOf(s, W, k + 1) - 1) }

\* safe is title sanitized, W being the characters that are kept as they are:
\* only kept characters and single hyphens; the kept characters of the title in
\* their order; a hyphen between two of them exactly where the title has
\* whitespace or a hyphen between them; a hyphen before the first or after the
\* last exactly where the title has a hyphen there (outer whitespace is trimmed)
SanitizedAs(safe, title, W) ==
    LET n == CountIn(title, W)
    IN  /\ \A i \in 1..Len(safe) : safe[i] \in W \cup {Hyphen}
        /\ SelectChars(safe, W) = SelectChars(title, W)
        /\ \A i \in 1..(Len(safe) - 1) : ~(safe[i] = Hyphen /\ safe[i + 1] = Hyphen)
        /\ \A k \in 0..n :
              (Gap(safe, W, k) # {})
                <=> IF k = 0 \/ k = n
                    THEN Hyphen \in Gap(title, W, k)
                    ELSE Gap(title, W, k) \cap (Whitespace \cup {Hyphen}) # {}

\* name is <post_id>_<safe>.md for a safe that is title sanitized keeping W
NamedAs(name, post_id, title, W) ==
    LET lo == Len(post_id) + 2
        hi == Len(name) - 3
    IN  /\ Len(name) >= Len(post_id) + 4
        /\ SubSeq(name, 1, Len(post_id)) = post_id
        /\ name[Len(post_id) + 1] = "_"
        /\ SubSeq(name, hi + 1, Len(name)) = <<".", "m", "d">>
        /\ SanitizedAs(SubSeq(name, lo, hi), title, W)

\* C5 as stated: the file name is <post_id>_<sanitized-title>.md where only
\* alphanumerics are kept besides whitespace and hyphens.
C5_KeepsAlphanumericsOnly ==
    nm_output_filename # <<>> =>
        NamedAs(nm_output_filename, nm_post_id, nm_title, Letters \cup Digits)

\* C5 amended: the file name is <post_id>_<sanitized-title>.md where the
\* characters kept are the alphanumerics and the underscore (\w); whitespace is
\* trimmed and every run of whitespace or hyphens becomes one hyphen.  The
\* example title gives Hello-World-Part-2.
C5_KeepsWordCharacters ==
    nm_output_filename # <<>> =>
        /\ NamedAs(nm_output_filename, nm_post_id, nm_title, WordChars)
        /\ nm_title = ExampleTitle =>
              nm_output_filename
                = nm_post_id \o <<"_">> \o ExampleSafeTitle \o <<".", "m", "d">>

\* a title with an underscore, punctuation, whitespace and a hyphen was named
C5_Witness ==
    /\ nm_output_filename # <<>>
    /\ "_" \in { nm_title[i] : i \in 1..Len(nm_title) }
    /\ { nm_title[i] : i \in 1..Len(nm_title) } \cap Whitespace # {}
    /\ Hyphen \in { nm_output_filename[i] : i \in 1..Len(nm_output_filename) }

(***************************************************************************)
(* The metadata loader, SubstackConverter._load_posts_metadata.            *)
(*                                                                         *)
(* A row is what csv.DictReader yields: the cells of the line under the    *)
(* names of the header.  A line with too few cells leaves the missing      *)
(* columns None, and row['post_id'].split raises on None.                  *)
(***************************************************************************)
None == <<"<None>">>

Row(post_id, title, is_published) ==
    [post_id |-> post_id, title |-> title, subtitle |-> <<>>,
     post_date |-> [ymd |-> "2024-03-01", rest |-> "T12:00:00Z", iso |-> TRUE],
     type |-> "newsletter", is_published |-> is_published]

MalformedRow ==
    [post_id |-> None, title |-> None, subtitle |-> None,
     post_date |-> [ymd |-> "", rest |-> "", iso |-> FALSE],
     type |-> "", is_published |-> ""]

\* the body of the for loop raises on this row
RowRaises(row) == row.post_id = None

EmptyDict == [k \in {} |-> {}]

\* lines 59-66: the entry one row gives
RowKey(row) == BeforeFirstDot(row.post_id)

RowEntry(row) ==
    [title |-> row.title, subtitle |-> row.subtitle, date |-> row.post_date,
     type |-> row.type, published |-> (row.is_published = "true")]

\* the same loop with the try inside it: a row that raises is passed over
RECURSIVE ReadRows_SkipBadRow(_, _)
ReadRows_SkipBadRow(rows, metadata) ==
    IF rows = <<>> THEN [metadata |-> metadata, error |-> FALSE]
    ELSE IF RowRaises(Head(rows))
         THEN [ReadRows_SkipBadRow(Tail(rows), metadata) EXCEPT !.error = TRUE]
         ELSE ReadRows_SkipBadRow(Tail(rows),
                  (RowKey(Head(rows)) :> RowEntry(Head(rows))) @@ metadata)

\* lines 55-68: the for loop inside the try; the first row that raises ends it
RECURSIVE ReadRows(_, _)
ReadRows(rows, metadata) ==
    IF rows = <<>> THEN [metadata |-> metadata, error |-> FALSE]
    ELSE IF RowRaises(Head(rows))
         THEN [metadata |-> metadata, error |-> TRUE]
         ELSE ReadRows(Tail(rows),
                  (RowKey(Head(rows)) :> RowEntry(Head(rows))) @@ metadata)

\* a line of the console
Line(msg, file, out, n, total) ==
    [msg |-> msg, file |-> file, out |-> out, n |-> n, total |-> total]

\* _load_posts_metadata: the mapping and what it prints
LoadPostsMetadata(exists, rows) ==
    IF ~exists
    THEN [metadata |-> EmptyDict,
          printed  |-> <<Line("Warning: posts.csv not found", <<>>, <<>>, 0, 0)>>]
    ELSE LET r == ReadRows(rows, EmptyDict)
         IN  [metadata |-> r.metadata,
              printed  |-> IF r.error
                           THEN <<Line("Error reading posts.csv", <<>>, <<>>, 0, 0)>>
                           ELSE <<>>]

(***************************************************************************)
(* The frontmatter, the renderer and convert_file.                         *)
(***************************************************************************)
\* self.posts_metadata.get(post_id, {}): present is FALSE for the empty dict
NoMetadata ==
    [present |-> FALSE, title |-> <<>>, subtitle |-> <<>>,
     date |-> [ymd |-> "", rest |-> "", iso |-> FALSE], type |-> "",
     published |-> FALSE]

Lookup(metadata, post_id) ==
    IF post_id \in DOMAIN metadata
    THEN [present |-> TRUE, title |-> metadata[post_id].title,
          subtitle |-> metadata[post_id].subtitle, date |-> metadata[post_id].date,
          type |-> metadata[post_id].type, published |-> metadata[post_id].published]
    ELSE NoMetadata

\* metadata.get(key, default)
Get(metadata, key, default) == IF metadata.present THEN metadata[key] ELSE default

Untitled == <<"U", "n", "t", "i", "t", "l", "e", "d">>

\* _format_date: the date part of an ISO timestamp, any other text as it is
FormatDate(date_str) ==
    IF date_str.iso THEN [ymd |-> date_str.ymd, rest |-> "", iso |-> TRUE] ELSE date_str

\* _create_frontmatter: the lines of the block, the subtitle line only when the
\* stripped subtitle is not empty
CreateFrontmatter(post_id, metadata) ==
    LET subtitle == Strip(Get(metadata, "subtitle", <<>>))
    IN  [title        |-> Get(metadata, "title", Untitled),
         has_subtitle |-> subtitle # <<>>,
         subtitle     |-> subtitle,
         date         |-> FormatDate(Get(metadata, "date",
                                         [ymd |-> "", rest |-> "", iso |-> FALSE])),
         type         |-> Get(metadata, "type", "post"),
         published    |-> Get(metadata, "published", FALSE),
         substack_id  |-> post_id]

\* lines 162-166: what html2text renders from the cleaned HTML, blank lines
\* collapsed and the ends stripped
Markdown(cleaned_html) == [rendered_from |-> cleaned_html]

\* the check with a key the record never has: the default decides every time
PublishedCheck_WrongKey(metadata) == TRUE

\* line 154: metadata.get('published', True)
PublishedCheck(metadata) == Get(metadata, "published", TRUE)

\* the title of the file name falling back as the frontmatter does
FilenameTitle_Untitled(metadata, name) == Get(metadata, "title", Untitled)

\* line 175: metadata.get('title', html_file.stem)
FilenameTitle(metadata, name) == Get(metadata, "title", Stem(name))

\* the steps of convert_file that can raise, in the order they run
Faults == {"none", "read", "sanitize", "render", "frontmatter", "filename",
           "open", "write"}

\* what a failed write leaves at the path open(..., 'w') truncated: nothing, or
\* the start of the content
TornWrites == {"empty", "partial"}

Torn(full_content, torn) ==
    IF torn = "empty" THEN <<>> ELSE SubSeq(full_content, 1, 1)

\* the exception leaving convert_file: nothing catches it
OnException_Propagates(name, disk) ==
    [ret |-> FALSE, raised |-> TRUE, disk |-> disk, printed |-> <<>>]

\* lines 190-192: except Exception: print (the text of the error is not kept)
\* and return False
OnException(name, disk) ==
    [ret |-> FALSE, raised |-> FALSE, disk |-> disk,
     printed |-> <<Line("Error converting", name, <<>>, 0, 0)>>]

\* convert_file(html_file): its result, the disk after it and what it prints.
\* html is the text of the file; fault is the step that raises (if any) and
\* torn what a failed write leaves behind.
ConvertFile(name, html, posts, disk, fault, torn) ==
    IF fault = "read" THEN OnException(name, disk)
    ELSE
    LET post_id  == ExtractPostId(name)
        metadata == Lookup(posts, post_id)
    IN  IF ~PublishedCheck(metadata)
        THEN [ret |-> FALSE, raised |-> FALSE, disk |-> disk,
              printed |-> <<Line("Skipping unpublished post", name, <<>>, 0, 0)>>]
        ELSE IF fault \in {"sanitize", "render", "frontmatter", "filename", "open"}
        THEN OnException(name, disk)
        ELSE
        LET markdown_content == Markdown(CleanHtmlContent(html))
            frontmatter      == CreateFrontmatter(post_id, metadata)
            full_content     == <<frontmatter, markdown_content>>
            output_filename  == OutputFilename(post_id, FilenameTitle(metadata, name))
        IN  IF fault = "write"
            THEN OnException(name, (output_filename :> Torn(full_content, torn)) @@ disk)
            ELSE [ret |-> TRUE, raised |-> FALSE,
                  disk |-> (output_filename :> full_content) @@ disk,
                  printed |-> <<Line("Converted", name, output_filename, 0, 0)>>]

(***************************************************************************)
(* Spec: a run of main() on an export directory.                           *)
(***************************************************************************)
DotHtml == <<".", "h", "t", "m", "l">>

File1a   == <<"1", ".", "a">> \o DotHtml          \* 1.a.html
File1b   == <<"1", ".", "b">> \o DotHtml          \* 1.b.html
File2c   == <<"2", ".", "c", "_", "d">> \o DotHtml  \* 2.c_d.html
File3e   == <<"3", ".", "e">> \o DotHtml          \* 3.e.html
FileNote == <<"n", ".", "t", "x", "t">>           \* n.txt

FileNames == {File1a, File1b, File2c, File3e, FileNote}

\* the text of each file of the posts directory
HtmlOf(name) ==
    IF name = File1a THEN <<Text("a"), Br(""), Br(""), Text("b")>>
    ELSE IF name = File1b THEN Div({"poll-embed"}, <<Text("a")>>) \o <<Text("b")>>
    ELSE IF name = File3e THEN <<Text("e"), Text("\n"), Text(" ")>>
    ELSE Div({"captioned-image-container"}, <<Text("c")>>)

TitleAB == <<"A", ",", " ", "b">>     \* "A, b"

Row1True  == Row(<<"1", ".", "a">>, TitleAB, "true")
Row1False == Row(<<"1", ".", "a">>, TitleAB, "false")
Row2True  == Row(<<"2", ".", "c", "_", "d">>, TitleAB, "true")
Row3True  == Row(<<"3", ".", "e">>, <<"_", "b">>, "True")

CsvRowSet == {Row1True, Row1False, Row3True, MalformedRow}

\* the posts.csv files of the runs
CsvFiles ==
    { <<>>, <<Row1True>>, <<Row1False>>, <<Row1False, Row1True>>,
      <<Row2True, Row1True>>, <<Row3True, Row1True>>,
      <<MalformedRow, Row1False>>, <<Row1True, MalformedRow, Row1False>> }

Init ==
    /\ InitNameIdle /\ InitCleanIdle
    /\ csvExists \in BOOLEAN
    /\ csvRows \in CsvFiles
    /\ ~csvExists => csvRows = <<>>
    /\ postsDirExists \in BOOLEAN
    /\ postsDir \in { d \in SUBSET FileNames : Cardinality(d) <= MaxFiles }
    /\ ~postsDirExists => postsDir = {}
    /\ outputDir = EmptyDict
    /\ posts_metadata = EmptyDict
    /\ html_files = <<>> /\ idx = 0 /\ successful = 0
    /\ pc = "start" /\ console = <<>>

\* the pattern matching every file
Glob_AnyFile(dir) == dir

\* self.posts_dir.glob("*.html")
Glob(dir) ==
    { f \in dir : Len(f) >= Len(DotHtml)
                  /\ SubSeq(f, Len(f) - Len(DotHtml) + 1, Len(f)) = DotHtml }

\* the lists holding each element of S once: the order glob yields is the
\* file system's
Orders(S) ==
    { q \in [1..Cardinality(S) -> S] : \A i, j \in 1..Cardinality(S) : q[i] = q[j] => i = j }

\* SubstackConverter.__init__ (main, line 282): the output directory is made and
\* the metadata loaded
Construct ==
    /\ pc = "start"
    /\ LET r == LoadPostsMetadata(csvExists, csvRows)
       IN  /\ posts_metadata' = r.metadata
           /\ console' = console \o r.printed
    /\ pc' = "constructed"
    /\ UNCHANGED <<csvExists, csvRows, postsDirExists, postsDir, outputDir,
                   html_files, idx, successful, nameVars, cleanVars>>

\* convert_all up to its for loop: lines 196-210
ConvertAllBegin ==
    /\ pc = "constructed"
    /\ IF ~postsDirExists
       THEN /\ console' = Append(console, Line("Posts directory not found", <<>>, <<>>, 0, 0))
            /\ pc' = "done"
            /\ UNCHANGED <<html_files, idx, successful>>
       ELSE IF Glob(postsDir) = {}
       THEN /\ console' = Append(console, Line("No HTML files found in posts directory",
                                               <<>>, <<>>, 0, 0))
            /\ pc' = "done"
            /\ UNCHANGED <<html_files, idx, successful>>
       ELSE /\ html_files' \in Orders(Glob(postsDir))
            /\ console' = Append(console, Line("Found HTML files to convert", <<>>, <<>>,
                                               0, Cardinality(Glob(postsDir))))
            /\ successful' = 0
            /\ idx' = 1
            /\ pc' = "loop"
    /\ UNCHANGED <<csvExists, csvRows, postsDirExists, postsDir, outputDir,
                   posts_metadata, nameVars, cleanVars>>

\* one turn of the for loop, lines 211-213: convert_file on the next file
ConvertNext ==
    /\ pc = "loop"
    /\ idx <= Len(html_files)
    /\ \E fault \in Faults, torn \in TornWrites :
          LET r == ConvertFile(html_files[idx], HtmlOf(html_files[idx]),
                               posts_metadata, outputDir, fault, torn)
          IN  /\ outputDir' = r.disk
              /\ console' = console \o r.printed
              /\ IF r.raised
                 THEN /\ pc' = "crashed"
                      /\ UNCHANGED <<idx, successful>>
                 ELSE /\ pc' = "loop"
                      /\ idx' = idx + 1
                      /\ successful' = IF r.ret THEN successful + 1 ELSE successful
    /\ UNCHANGED <<csvExists, csvRows, postsDirExists, postsDir, posts_metadata,
                   html_files, nameVars, cleanVars>>

\* the end of convert_all, lines 215-216: the summary
ConvertAllEnd ==
    /\ pc = "loop"
    /\ idx > Len(html_files)
    /\ console' = Append(console, Line("Conversion complete", <<>>, <<>>,
                                       successful, Len(html_files)))
    /\ pc' = "done"
    /\ UNCHANGED <<csvExists, csvRows, postsDirExists, postsDir, outputDir,
                   posts_metadata, html_files, idx, successful, nameVars, cleanVars>>

Next == Construct \/ ConvertAllBegin \/ ConvertNext \/ ConvertAllEnd

Spec == Init /\ [][Next]_vars

(***************************************************************************)
(* SpecLoad: the construction of the converter on every posts.csv of up to *)
(* MaxRows rows, in an export with no posts directory.                     *)
(***************************************************************************)
InitLoad ==
    /\ InitNameIdle /\ InitCleanIdle
    /\ csvExists \in BOOLEAN
    /\ csvRows \in UNION { [1..n -> CsvRowSet] : n \in 0..MaxRows }
    /\ ~csvExists => csvRows = <<>>
    /\ postsDirExists = FALSE
    /\ postsDir = {}
    /\ outputDir = EmptyDict
    /\ posts_metadata = EmptyDict
    /\ html_files = <<>> /\ idx = 0 /\ successful = 0
    /\ pc = "start" /\ console = <<>>

NextLoad == Construct \/ ConvertAllBegin

SpecLoad == InitLoad /\ [][NextLoad]_vars

(***************************************************************************)
(* Claims about a run (Spec).                                              *)
(***************************************************************************)
IsConverted(l) == l.msg = "Converted"
IsSkipped(l)   == l.msg = "Skipping unpublished post"
IsError(l)     == l.msg = "Error converting"
IsFileLine(l)  == IsConverted(l) \/ IsSkipped(l) \/ IsError(l)

\* the lines convert_file printed, one per call
FileLines == SelectSeq(console, IsFileLine)

Converted == SelectSeq(console, IsConverted)
Skipped   == SelectSeq(console, IsSkipped)
Errors    == SelectSeq(console, IsError)

LastLine == console[Len(console)]

\* the counts of the summary line: conversions and files found
Tally == <<successful, Len(html_files)>>

\* a file on disk holds the whole frontmatter + body of a post
IsComplete(content) ==
    /\ Len(content) = 2
    /\ "substack_id" \in DOMAIN content[1]
    /\ "rendered_from" \in DOMAIN content[2]

\* C1: every exception of convert_file is caught there: the run never aborts,
\* every file found is attempted once, in order, whatever happened to the files
\* before it, the run ends with its summary, and the count of the summary is
\* the number of files that were converted (all but the failed and the skipped).
C1_BatchResilience ==
    /\ pc # "crashed"
    /\ pc \in {"loop", "done"} /\ html_files # <<>> =>
          /\ Len(FileLines) = idx - 1
          /\ \A i \in 1..Len(FileLines) : FileLines[i].file = html_files[i]
          /\ successful = Len(Converted)
          /\ successful = Len(FileLines) - Len(Errors) - Len(Skipped)
    /\ pc = "done" /\ html_files # <<>> =>
          /\ idx = Len(html_files) + 1
          /\ LastLine = Line("Conversion complete", <<>>, <<>>,
                             Len(html_files) - Len(Errors) - Len(Skipped),
                             Len(html_files))

\* the first of three files raised, the two after it were converted and the
\* summary reports 2
C1_Witness ==
    /\ pc = "done"
    /\ Len(html_files) = 3
    /\ Len(Errors) = 1
    /\ IsError(FileLines[1])
    /\ successful = 2
    /\ LastLine.msg = "Conversion complete" /\ LastLine.n = 2

\* the turn of the loop in hand handles a file that was read and whose post_id
\* maps to a record with published = false
UnpublishedTurn ==
    /\ pc = "loop" /\ idx <= Len(html_files) /\ idx' = idx + 1
    /\ ExtractPostId(html_files[idx]) \in DOMAIN posts_metadata
    /\ ~posts_metadata[ExtractPostId(html_files[idx])].published
    /\ ~IsError(console'[Len(console')])

\* C2 as stated: the unpublished post writes no file and increments a count of
\* the run's tally (the "skipped" count) other than the converted count.
C2_SkippedIsCounted ==
    [][UnpublishedTurn =>
          /\ outputDir' = outputDir
          /\ successful' = successful
          /\ Tally' # Tally]_vars

\* C2 amended: the unpublished post writes no file and leaves the converted
\* count as it is; the run keeps no skipped count: the only trace is the
\* "Skipping unpublished post" line, and the tally does not change.
C2_SkippedWritesNothing ==
    [][UnpublishedTurn =>
          /\ outputDir' = outputDir
          /\ successful' = successful
          /\ Tally' = Tally
          /\ console' = Append(console, Line("Skipping unpublished post",
                                             html_files[idx], <<>>, 0, 0))]_vars

\* an unpublished post was skipped after another post was converted
C2_Witness ==
    /\ pc = "done"
    /\ Len(Skipped) >= 1
    /\ successful >= 1
    /\ \E i \in 1..Len(Skipped) :
          /\ ExtractPostId(Skipped[i].file) \in DOMAIN posts_metadata
          /\ ~posts_metadata[ExtractPostId(Skipped[i].file)].published

\* the last line of the console is of a file with no record in the metadata
\* (the mapping holding records of other posts)
LastFileHasNoMetadata ==
    /\ console # <<>> /\ IsFileLine(LastLine)
    /\ ExtractPostId(LastLine.file) \notin DOMAIN posts_metadata

\* C3 as stated: the post with no metadata record is never skipped, and when it
\* is converted "Untitled" is its title in the frontmatter and in the file name.
C3_UntitledEverywhere ==
    LastFileHasNoMetadata =>
        /\ ~IsSkipped(LastLine)
        /\ IsConverted(LastLine) =>
              /\ IsComplete(outputDir[LastLine.out])
              /\ outputDir[LastLine.out][1].title = Untitled
              /\ LastLine.out = ExtractPostId(LastLine.file) \o <<"_">> \o Untitled
                                   \o <<".", "m", "d">>

\* C3 amended: the post with no metadata record is never skipped, and when it
\* is converted its frontmatter has the title "Untitled" (and published: false)
\* while the title part of its file name is the sanitized stem of the input
\* file's name.
C3_UntitledInFrontmatterOnly ==
    LastFileHasNoMetadata =>
        /\ ~IsSkipped(LastLine)
        /\ IsConverted(LastLine) =>
              /\ IsComplete(outputDir[LastLine.out])
              /\ outputDir[LastLine.out][1].title = Untitled
              /\ outputDir[LastLine.out][1].published = FALSE
              /\ NamedAs(LastLine.out, ExtractPostId(LastLine.file),
                         Stem(LastLine.file), WordChars)

\* a post with no record was converted while the metadata holds other records
C3_Witness ==
    /\ LastFileHasNoMetadata
    /\ IsConverted(LastLine)
    /\ DOMAIN posts_metadata # {}
    /\ successful >= 1

\* C4 as stated: two different input files that are both converted never have
\* the same output file name, and at the end of the run the output directory
\* holds as many files as conversions were reported.
C4_OutputNamesUnique ==
    /\ \A i, j \in 1..Len(Converted) :
          Converted[i].file # Converted[j].file => Converted[i].out # Converted[j].out
    /\ pc = "done" /\ Errors = <<>> => Cardinality(DOMAIN outputDir) = successful

\* C4 amended: output names are unique across post_ids, not across input files.
\* Converted files with different post_ids have different output names; those
\* with one post_id and a metadata record have the same name, and the later
\* overwrites the earlier.  At the end of a run with no failure the output
\* directory holds one file per distinct output name, which may be fewer than
\* the conversions reported.
C4_UniquePerPostId ==
    /\ \A i, j \in 1..Len(Converted) :
          /\ ExtractPostId(Converted[i].file) # ExtractPostId(Converted[j].file)
                => Converted[i].out # Converted[j].out
          /\ (/\ ExtractPostId(Converted[i].file) = ExtractPostId(Converted[j].file)
              /\ ExtractPostId(Converted[i].file) \in DOMAIN posts_metadata)
                => Converted[i].out = Converted[j].out
    /\ pc = "done" /\ Errors = <<>> =>
          /\ DOMAIN outputDir = { Converted[i].out : i \in 1..Len(Converted) }
          /\ Cardinality(DOMAIN outputDir) <= successful

\* three files were converted, two of them of one post, into two output files
C4_Witness ==
    /\ pc = "done" /\ Errors = <<>>
    /\ successful = 3
    /\ Cardinality(DOMAIN outputDir) = 2

\* the files of the posts directory whose suffix is .html
HtmlFilesIn(dir) == { f \in dir : Suffix(f) = DotHtml }

\* the posts directory does not exist or holds no HTML file
NothingToConvert == ~postsDirExists \/ HtmlFilesIn(postsDir) = {}

\* C6 as stated: with posts.csv missing, the posts directory missing or no HTML
\* file in it, no file is processed and nothing is written.
C6_ConfigurationErrorsHalt ==
    (pc # "start" /\ (~csvExists \/ NothingToConvert)) =>
        /\ FileLines = <<>>
        /\ DOMAIN outputDir = {}

\* C6 amended: a missing posts directory, or one with no HTML file, is reported
\* and ends the run with no file processed.  A missing posts.csv is reported as
\* a warning and the run goes on with an empty mapping: every HTML file is
\* processed, none is skipped as unpublished.
C6_MissingDirectoryHalts ==
    /\ NothingToConvert =>
          /\ FileLines = <<>> /\ DOMAIN outputDir = {} /\ pc # "loop"
          /\ pc = "done" =>
                LastLine.msg = (IF ~postsDirExists THEN "Posts directory not found"
                                ELSE "No HTML files found in posts directory")
    /\ (pc # "start" /\ ~csvExists) =>
          /\ console[1].msg = "Warning: posts.csv not found"
          /\ DOMAIN posts_metadata = {}
          /\ Skipped = <<>>
          /\ pc = "done" /\ ~NothingToConvert =>
                /\ Len(FileLines) = Cardinality(HtmlFilesIn(postsDir))
                /\ LastLine.msg = "Conversion complete"

\* posts.csv is missing and a file was converted all the same, beside a file
\* the pattern does not match
C6_Witness ==
    /\ pc = "done" /\ ~csvExists
    /\ successful >= 1
    /\ HtmlFilesIn(postsDir) # postsDir

\* the rows of posts.csv that do not raise
WellFormed(i) == ~RowRaises(csvRows[i])

\* the index of the first row that raises, Len + 1 when none does
FirstMalformed ==
    CHOOSE i \in 1..(Len(csvRows) + 1) :
        /\ i <= Len(csvRows) => ~WellFormed(i)
        /\ \A j \in 1..(i - 1) : WellFormed(j)

\* C7 as stated: the mapping holds an entry for every well-formed row, before
\* and after a malformed one.
C7_EveryWellFormedRowLoaded ==
    (pc # "start" /\ csvExists) =>
        \A i \in 1..Len(csvRows) :
            WellFormed(i) => RowKey(csvRows[i]) \in DOMAIN posts_metadata

\* C7 amended: the first malformed row ends the loading: the error is reported
\* once and the mapping holds the rows before that row and no row after it
\* (of two rows with one post_id the later one).
C7_LoadStopsAtMalformedRow ==
    (pc # "start" /\ csvExists) =>
        /\ DOMAIN posts_metadata
             = { RowKey(csvRows[i]) : i \in 1..(FirstMalformed - 1) }
        /\ \A i \in 1..(FirstMalformed - 1) :
              (\A j \in (i + 1)..(FirstMalformed - 1) :
                    RowKey(csvRows[j]) # RowKey(csvRows[i]))
                => /\ posts_metadata[RowKey(csvRows[i])].title = csvRows[i].title
                   /\ posts_metadata[RowKey(csvRows[i])].published
                        = (csvRows[i].is_published = "true")
        /\ (FirstMalformed <= Len(csvRows))
              <=> (console # <<>> /\ console[1].msg = "Error reading posts.csv")

\* a malformed row with a well-formed row before it and one after it was read
C7_Witness ==
    /\ pc = "constructed" /\ csvExists
    /\ FirstMalformed > 1
    /\ FirstMalformed < Len(csvRows)
    /\ WellFormed(Len(csvRows))

\* C8: no file of the output directory is ever empty or partly written.
C8_NoPartialFiles ==
    \A name \in DOMAIN outputDir : IsComplete(outputDir[name])

====
